---------------------------- MODULE Spec2Model ----------------------------
(***************************************************************************)
(* A model of konaste_downloader's synchronisation engine                  *)
(* (src/src/lib.rs): KDownloader::run_inner and FileResource::fetch.       *)
(*                                                                         *)
(* One behaviour is one call of run_inner.  The environment (the manifest  *)
(* response, the remote files, the local filesystem and the outcome of     *)
(* every I/O call) is a nondeterministic choice.  Byte strings are named   *)
(* symbolically: "c1" and "c2" are file contents, "body" is the manifest   *)
(* response body as received and "xml" is the text kbinxml::to_text_xml    *)
(* makes of a binary body.                                                 *)
(*                                                                         *)
(* The Reporter and the libraries are taken not to panic, so that a        *)
(* JoinHandle never yields a JoinError (lib.rs:157, Error::InternalError). *)
(* The one panic modelled is the arithmetic overflow of the byte total in  *)
(* a build with overflow checks (lib.rs:102-106).                          *)
(***************************************************************************)
EXTENDS Integers, Sequences, FiniteSets, TLC

\* ------------------------------------------------------------------ bounds

\* The longest manifest response (descriptors before filtering).
MaxFiles == 2

\* The largest `concurrency` a run is configured with (0 is included).
MaxConcurrency == 2

Workers == 1..MaxFiles

\* ------------------------------------------------------------- environment

\* resources.rs: FileResource { path, version, size, sum, url }.  The
\* manifests of the model are the sequences over this catalogue: a
\* downloadable file in a sub-directory, one whose destination is the
\* snapshot's own file name, and a placeholder with an empty url.  The
\* sizes are an i32 each: one whose sums carry from one 16-bit limb of the
\* byte total into the next, and a negative one.
FileResource ==
    { [path |-> "d/b",    version |-> 1, size |-> 65535, sum |-> "h1", url |-> "u1"],
      [path |-> "ri.bin", version |-> 2, size |-> -1,    sum |-> "h2", url |-> "u2"],
      [path |-> "",       version |-> 0, size |-> 4,     sum |-> "",   url |-> ""] }

\* resources.rs: ResourceInfo { files: Vec<FileResource> }.
ResourceInfo == UNION { [1..n -> FileResource] : n \in 0..MaxFiles }

Paths == { f.path : f \in FileResource } \ {""}

\* The file name of the snapshot under the output root (lib.rs:161).
SnapshotPath == "ri.bin"

\* Path::parent of a destination, relative to the output root ("." is the
\* root itself, which exists).
Parent(p) == IF p = "d/b" THEN "d" ELSE "."

\* What GET(url) returns when it succeeds: the remote files do not change
\* during a run.
Remote(url) == IF url = "u1" THEN "c1" ELSE "c2"

\* format!("{:x}", Sha256::digest(&content)): the lower-case hex digest.
\* Distinct contents have distinct digests.
Digest(content) ==
    CASE content = "c1"   -> "h1"
      [] content = "c2"   -> "h2"
      [] content = "body" -> "hb"
      [] OTHER            -> "hx"

\* The manifest responses: a body is described by its format and by the
\* descriptors it encodes.
\*   kbin        binary; converts to text that deserializes
\*   kbin_noconv binary; kbinxml::to_text_xml fails
\*   kbin_noxml  binary; converts to text that does not deserialize
\*   xml         not binary; text that deserializes
\*   junk        not binary; text that does not deserialize
Bodies ==
    { [fmt |-> f, entries |-> m] : f \in {"kbin", "xml"}, m \in ResourceInfo }
    \cup { [fmt |-> f, entries |-> << >>] : f \in {"kbin_noconv", "kbin_noxml", "junk"} }

\* ------------------------------------------------------------------- state

VARIABLES
    concurrency,    \* KDownloader.concurrency
    reporter,       \* KDownloader.reporter is Some
    pc,             \* where run_inner is: manifest, loop, select, await, snapshot, done
    body,           \* the manifest response (NoBody before it is received)
    ri_bin,         \* run_inner's ri_bin: "None", or the bytes retained
    files,          \* resource_info.files after retain
    total,          \* run_inner's total
    total_len,      \* run_inner's total_len (a usize, as four 16-bit limbs)
    cancelled,      \* cancellation_token.is_cancelled()
    permits,        \* the semaphore's available permits
    next,           \* the index in files of the loop's current descriptor
    handles,        \* the number of JoinHandles pushed (workers 1..handles)
    awaiting,       \* the index of the handle the second loop awaits
    result,         \* run_inner's return value (Running until it returns)
    wstate,         \* each spawned task's position
    wstatus,        \* each task's `status` once its select! has resolved
    wbytes,         \* the `bytes` of each fetch, while it holds them
    werr,           \* the Err each task returns
    fs,             \* the files under the output root
    dirs,           \* the directories under the output root
    \* history, read by the properties only
    fs0,            \* fs when the run started
    dirs0,          \* dirs when the run started
    wseen,          \* what the tokio::fs::read of each completed fetch returned
    gets,           \* the file GETs each worker issued (urls)
    reports,        \* the Reporter calls each worker made
    firstFailed,    \* the worker whose fetch failed first in time, 0 if none
    lateAttempt,    \* the current admission attempt began after cancel()
    lateAdmits,     \* the workers admitted by such an attempt
    snapshot        \* the bytes written to SnapshotPath by run_inner, or "none"

vars == << concurrency, reporter, pc, body, ri_bin, files, total, total_len,
           cancelled, permits, next, handles, awaiting, result, wstate, wstatus,
           wbytes, werr, fs, dirs, fs0, dirs0, wseen, gets, reports, firstFailed,
           lateAttempt, lateAdmits, snapshot >>

config == << concurrency, reporter >>
loopVars == << permits, next, handles, lateAttempt, lateAdmits >>
taskVars == << wstate, wstatus, wbytes, werr >>
diskVars == << fs, dirs >>
histVars == << fs0, dirs0 >>

\* ----------------------------------------------------------------- totals

\* usize arithmetic on a 64-bit target, as four 16-bit limbs, least
\* significant first.
Limb == 2^16

\* Mutant of AsUsize: the i32 is zero-extended (`as u32 as usize`).
AsUsizeZeroExtended(size) ==
    << size % Limb, (size \div Limb) % Limb, 0, 0 >>

\* `f.size as usize` (lib.rs:105): an i32 sign-extended to 64 bits.
AsUsize(size) ==
    LET ext == IF size < 0 THEN Limb - 1 ELSE 0
    IN  << size % Limb, (size \div Limb) % Limb, ext, ext >>

\* Wrapping addition of two usize values.
AddUsize(a, b) ==
    LET s1 == a[1] + b[1]
        s2 == a[2] + b[2] + s1 \div Limb
        s3 == a[3] + b[3] + s2 \div Limb
        s4 == a[4] + b[4] + s3 \div Limb
    IN  << s1 % Limb, s2 % Limb, s3 % Limb, s4 % Limb >>

\* The addition of two usize values carries out of the word.
Carries(a, b) ==
    LET s1 == a[1] + b[1]
        s2 == a[2] + b[2] + s1 \div Limb
        s3 == a[3] + b[3] + s2 \div Limb
        s4 == a[4] + b[4] + s3 \div Limb
    IN  s4 >= Limb

\* .map(|f| f.size as usize).sum::<usize>() (lib.rs:102-106), in a build
\* without overflow checks: the additions wrap.
RECURSIVE TotalLen(_)
TotalLen(fl) ==
    IF fl = << >> THEN << 0, 0, 0, 0 >>
    ELSE AddUsize(TotalLen(SubSeq(fl, 1, Len(fl) - 1)), AsUsize(fl[Len(fl)].size))

\* One of the additions of that sum overflows: a build with overflow checks
\* panics there ("attempt to add with overflow").
RECURSIVE SumOverflows(_)
SumOverflows(fl) ==
    IF fl = << >> THEN FALSE
    ELSE LET front == SubSeq(fl, 1, Len(fl) - 1)
         IN  \/ SumOverflows(front)
             \/ Carries(TotalLen(front), AsUsize(fl[Len(fl)].size))

\* Mutant of Retain: nothing is filtered out.
RetainAll(fl) == fl

\* files.retain(|file| !file.url.is_empty()) (lib.rs:95-97).
RECURSIVE Retain(_)
Retain(fl) ==
    IF fl = << >> THEN << >>
    ELSE IF Head(fl).url # "" THEN << Head(fl) >> \o Retain(Tail(fl))
         ELSE Retain(Tail(fl))

\* ------------------------------------------------------------------ results

NoBody == [fmt |-> "none", entries |-> << >>]

\* Result<(), Error> of run_inner.  `from` is the place the error comes from:
\* 0 the manifest stage, w >= 1 the task of worker w, -1 the snapshot write.
Running == [tag |-> "running", kind |-> "", from |-> 0]
Ok == [tag |-> "Ok", kind |-> "", from |-> 0]
Err(kind, from) == [tag |-> "Err", kind |-> kind, from |-> from]

\* run_inner does not return: it unwinds from the overflow of the byte total.
Panicked == [tag |-> "panic", kind |-> "overflow", from |-> 0]

\* -------------------------------------------------------------------- Init

TypeOK ==
    /\ concurrency \in 0..MaxConcurrency
    /\ reporter \in BOOLEAN
    /\ pc \in {"manifest", "loop", "select", "await", "snapshot", "done"}
    /\ body \in Bodies \cup {NoBody}
    /\ ri_bin \in {"None", "body"}
    /\ files \in ResourceInfo
    /\ total \in 0..MaxFiles
    /\ cancelled \in BOOLEAN
    /\ permits \in 0..MaxConcurrency
    /\ next \in 1..(MaxFiles + 1)
    /\ handles \in 0..MaxFiles
    /\ awaiting \in 1..(MaxFiles + 1)
    /\ result.tag \in {"running", "Ok", "Err", "panic"}
    /\ wstate \in [Workers -> {"idle", "read", "get", "mkdir", "write", "report",
                                "return_err", "ok", "err"}]
    /\ wstatus \in [Workers -> {"none", "Downloaded", "Skipped", "Cancelled"}]
    /\ werr \in [Workers -> {"none", "Reqwest", "Io"}]
    /\ fs \in [Paths -> {"missing", "unreadable", "c1", "c2", "body"}]
    /\ dirs \subseteq {"d"}
    /\ firstFailed \in 0..MaxFiles
    /\ lateAttempt \in BOOLEAN
    /\ lateAdmits \subseteq Workers
    /\ snapshot \in {"none", "body"}

Init ==
    /\ concurrency \in 0..MaxConcurrency
    /\ reporter \in BOOLEAN
    /\ pc = "manifest"
    /\ body = NoBody
    /\ ri_bin = "None"
    /\ files = << >>
    /\ total = 0
    /\ total_len = << 0, 0, 0, 0 >>
    /\ cancelled = FALSE
    /\ permits = 0
    /\ next = 1
    /\ handles = 0
    /\ awaiting = 1
    /\ result = Running
    /\ wstate = [w \in Workers |-> "idle"]
    /\ wstatus = [w \in Workers |-> "none"]
    /\ wbytes = [w \in Workers |-> "none"]
    /\ werr = [w \in Workers |-> "none"]
    /\ fs0 \in [Paths -> {"missing", "unreadable", "c1", "c2"}]
    /\ fs0[SnapshotPath] \in {"missing", "c2"}
    /\ dirs0 = IF fs0["d/b"] = "missing" THEN {} ELSE {"d"}
    /\ fs = fs0
    /\ dirs = dirs0
    /\ wseen = [w \in Workers |-> "none"]
    /\ gets = [w \in Workers |-> << >>]
    /\ reports = [w \in Workers |-> << >>]
    /\ firstFailed = 0
    /\ lateAttempt = FALSE
    /\ lateAdmits = {}
    /\ snapshot = "none"

\* ---------------------------------------------------------- manifest stage

\* kbinxml::from_binary(body) is Ok (lib.rs:85).
FromBinary(b) == b.fmt \in {"kbin", "kbin_noconv", "kbin_noxml"}

\* Mutant of Decode: a manifest that does not convert or deserialize is
\* taken to be empty.
DecodeLenient(b) ==
    [err |-> "",
     files |-> IF b.fmt \in {"kbin", "xml"} THEN Retain(b.entries) ELSE << >>,
     ri_bin |-> IF FromBinary(b) THEN "body" ELSE "None"]

\* The block of lib.rs:83-99: the error it returns with `?` ("" when none),
\* the filtered files and ri_bin.
Decode(b) ==
    IF FromBinary(b) /\ b.fmt = "kbin_noconv"
        THEN [err |-> "ConvertResourceInfo", files |-> << >>, ri_bin |-> "None"]
    ELSE IF b.fmt \in {"kbin_noxml", "junk"}
        THEN [err |-> "ParseResourceInfo", files |-> << >>, ri_bin |-> "None"]
    ELSE [err |-> "", files |-> Retain(b.entries),
          ri_bin |-> IF FromBinary(b) THEN "body" ELSE "None"]

\* Mutant of SemaphoreNew: a semaphore has at least one permit.
SemaphoreNewAtLeastOne(n) == IF n = 0 THEN 1 ELSE n

\* Semaphore::new(self.concurrency) (lib.rs:109): the permits available at
\* first.
SemaphoreNew(n) == n

\* lib.rs:81-109: the manifest GET, the decoding, the totals, the token and
\* the semaphore.  No await of this part interleaves with a worker: none
\* exists yet.  Whether the build checks overflow is a choice of the
\* environment.
FetchManifest ==
    /\ pc = "manifest"
    /\ \E got \in BOOLEAN, b \in Bodies, overflow_checks \in BOOLEAN :
         IF ~got
         THEN \* send(), error_for_status() or bytes() failed
              /\ result' = Err("Reqwest", 0)
              /\ pc' = "done"
              /\ UNCHANGED << body, ri_bin, files, total, total_len, permits >>
         ELSE LET d == Decode(b) IN
              /\ body' = b
              /\ IF d.err # ""
                 THEN /\ result' = Err(d.err, 0)
                      /\ pc' = "done"
                      /\ UNCHANGED << ri_bin, files, total, total_len, permits >>
                 ELSE IF overflow_checks /\ SumOverflows(d.files)
                 THEN /\ ri_bin' = d.ri_bin
                      /\ files' = d.files
                      /\ total' = Len(d.files)
                      /\ result' = Panicked
                      /\ pc' = "done"
                      /\ UNCHANGED << total_len, permits >>
                 ELSE /\ ri_bin' = d.ri_bin
                      /\ files' = d.files
                      /\ total' = Len(d.files)
                      /\ total_len' = TotalLen(d.files)
                      /\ permits' = SemaphoreNew(concurrency)
                      /\ pc' = IF d.files = << >> THEN "await" ELSE "loop"
                      /\ UNCHANGED result
    /\ UNCHANGED << config, cancelled, next, handles, awaiting, taskVars, diskVars,
                    histVars, wseen, gets, reports, firstFailed, lateAttempt,
                    lateAdmits, snapshot >>

\* ---------------------------------------------------------- admission loop

\* The first loop reaches its select! for files[next] (lib.rs:111-112).
BeginAttempt ==
    /\ pc = "loop"
    /\ pc' = "select"
    /\ lateAttempt' = cancelled
    /\ UNCHANGED << config, body, ri_bin, files, total, total_len, cancelled,
                    permits, next, handles, awaiting, result, taskVars, diskVars,
                    histVars, wseen, gets, reports, firstFailed, lateAdmits, snapshot >>

\* Mutant of PermitReady: the permit is handed out without a free permit.
PermitReadyAlways == TRUE

\* semaphore.acquire_owned() is ready (lib.rs:114).
PermitReady == permits > 0

\* Mutant of CancelReady: the cancellation branch is ready without a signal.
CancelReadyAlways == TRUE

\* cancellation_token.cancelled() is ready (lib.rs:113).
CancelReady == cancelled

\* The select! yields a permit; the task is spawned and its handle pushed
\* (lib.rs:114-151).  select! polls its branches in a random order, so that
\* either ready branch may win.
Admit ==
    /\ pc = "select"
    /\ PermitReady
    /\ permits' = permits - 1
    /\ wstate' = [wstate EXCEPT ![next] = "read"]
    /\ handles' = handles + 1
    /\ lateAdmits' = IF lateAttempt THEN lateAdmits \cup {next} ELSE lateAdmits
    /\ lateAttempt' = FALSE
    /\ next' = next + 1
    /\ pc' = IF next + 1 > Len(files) THEN "await" ELSE "loop"
    /\ UNCHANGED << config, body, ri_bin, files, total, total_len, cancelled,
                    awaiting, result, wstatus, wbytes, werr, diskVars, histVars,
                    wseen, gets, reports, firstFailed, snapshot >>

\* Mutant of Break: the loop skips the descriptor and goes on (`continue`).
BreakSkipsOne ==
    /\ pc = "select"
    /\ CancelReady
    /\ next' = next + 1
    /\ pc' = IF next + 1 > Len(files) THEN "await" ELSE "loop"
    /\ lateAttempt' = FALSE
    /\ UNCHANGED << config, body, ri_bin, files, total, total_len, cancelled,
                    permits, handles, awaiting, result, taskVars, diskVars,
                    histVars, wseen, gets, reports, firstFailed, lateAdmits, snapshot >>

\* The select! yields None and the loop breaks (lib.rs:113, 117).
Break ==
    /\ pc = "select"
    /\ CancelReady
    /\ pc' = "await"
    /\ lateAttempt' = FALSE
    /\ UNCHANGED << config, body, ri_bin, files, total, total_len, cancelled,
                    permits, next, handles, awaiting, result, taskVars, diskVars,
                    histVars, wseen, gets, reports, firstFailed, lateAdmits, snapshot >>

\* ------------------------------------------------------------ fetch worker

\* The fetch future of worker w is pending at one of its awaits.
InFetch(w) == wstate[w] \in {"read", "get", "mkdir", "write"}

\* Mutant of UpToDate: the comparison is inverted.
UpToDateInverted(seen, file) ==
    /\ seen \notin {"missing", "unreadable"}
    /\ Digest(seen) # file.sum

\* Mutant of UpToDate: a readable file is taken to be up to date.
UpToDateIfReadable(seen, file) == seen \notin {"missing", "unreadable"}

\* `if let Ok(content) = read(..)` and `hash == self.sum` (lib.rs:172-175):
\* the file was read and its digest is the descriptor's sum.
UpToDate(seen, file) ==
    /\ seen \notin {"missing", "unreadable"}
    /\ Digest(seen) = file.sum

\* The url fetch GETs (lib.rs:181).
GetUrl(file) == file.url

\* Mutant of Fail: the failing task returns its error without cancel().
FailWithoutCancel(w, kind) ==
    /\ werr' = [werr EXCEPT ![w] = kind]
    /\ UNCHANGED cancelled
    /\ firstFailed' = IF firstFailed = 0 THEN w ELSE firstFailed
    /\ wstate' = [wstate EXCEPT ![w] = "return_err"]
    /\ wbytes' = [wbytes EXCEPT ![w] = "none"]
    /\ UNCHANGED reports

\* Mutant of Fail: the failing task reports its file before it returns.
FailReported(w, kind) ==
    /\ werr' = [werr EXCEPT ![w] = kind]
    /\ cancelled' = TRUE
    /\ firstFailed' = IF firstFailed = 0 THEN w ELSE firstFailed
    /\ wstate' = [wstate EXCEPT ![w] = "return_err"]
    /\ wbytes' = [wbytes EXCEPT ![w] = "none"]
    /\ reports' = [reports EXCEPT ![w] =
                      Append(@, [file |-> files[w], status |-> "Cancelled",
                                 total_files |-> total, total_bytes |-> total_len])]

\* The fetch of worker w returned Err: the task calls cancel() and is about
\* to return the error (lib.rs:134-137), without a Reporter call.  No await
\* lies between the two, and the error is a local of the task until it
\* returns.
Fail(w, kind) ==
    /\ werr' = [werr EXCEPT ![w] = kind]
    /\ cancelled' = TRUE
    /\ firstFailed' = IF firstFailed = 0 THEN w ELSE firstFailed
    /\ wstate' = [wstate EXCEPT ![w] = "return_err"]
    /\ wbytes' = [wbytes EXCEPT ![w] = "none"]
    /\ UNCHANGED reports

\* The select! of the task yields a Status (lib.rs:128-142); the fetch
\* future and its locals are gone.
Resolve(w, status) ==
    /\ wstatus' = [wstatus EXCEPT ![w] = status]
    /\ wstate' = [wstate EXCEPT ![w] = "report"]
    /\ wbytes' = [wbytes EXCEPT ![w] = "none"]

\* tokio::fs::read completes (lib.rs:172-181): on a match fetch returns
\* Skipped, otherwise it sends the GET.
Read(w) ==
    /\ wstate[w] = "read"
    /\ wseen' = [wseen EXCEPT ![w] = fs[files[w].path]]
    /\ IF UpToDate(fs[files[w].path], files[w])
       THEN /\ Resolve(w, "Skipped")
            /\ UNCHANGED gets
       ELSE /\ wstate' = [wstate EXCEPT ![w] = "get"]
            /\ gets' = [gets EXCEPT ![w] = Append(@, GetUrl(files[w]))]
            /\ UNCHANGED << wstatus, wbytes >>
    /\ UNCHANGED << config, pc, body, ri_bin, files, total, total_len, cancelled,
                    loopVars, awaiting, result, werr, diskVars, histVars,
                    reports, firstFailed, snapshot >>

\* dirs after create_dir_all(parent) of path p succeeded.
WithParent(p) == IF Parent(p) = "." THEN dirs ELSE dirs \cup {Parent(p)}

\* Mutant of GetDone: the parent directories are created before the
\* response is looked at.
GetDoneDirsFirst(w) ==
    /\ wstate[w] = "get"
    /\ dirs' = WithParent(files[w].path)
    /\ \E got \in BOOLEAN :
         IF got
         THEN /\ wbytes' = [wbytes EXCEPT ![w] = Remote(files[w].url)]
              /\ wstate' = [wstate EXCEPT ![w] = "mkdir"]
              /\ UNCHANGED << werr, cancelled, firstFailed, reports >>
         ELSE Fail(w, "Reqwest")
    /\ UNCHANGED << config, pc, body, ri_bin, files, total, total_len, loopVars,
                    awaiting, result, wstatus, fs, histVars, wseen, gets,
                    snapshot >>

\* The GET completes (lib.rs:181-185): a transport failure or a non-success
\* status is an error; otherwise create_dir_all is started.
GetDone(w) ==
    /\ wstate[w] = "get"
    /\ \E got \in BOOLEAN :
         IF got
         THEN /\ wbytes' = [wbytes EXCEPT ![w] = Remote(files[w].url)]
              /\ wstate' = [wstate EXCEPT ![w] = "mkdir"]
              /\ UNCHANGED << werr, cancelled, firstFailed, reports >>
         ELSE Fail(w, "Reqwest")
    /\ UNCHANGED << config, pc, body, ri_bin, files, total, total_len, loopVars,
                    awaiting, result, wstatus, diskVars, histVars, wseen, gets,
                    snapshot >>

\* create_dir_all completes (lib.rs:184-187); on success the write is started.
CreateDirAll(w) ==
    /\ wstate[w] = "mkdir"
    /\ \E done \in BOOLEAN :
         IF done
         THEN /\ dirs' = WithParent(files[w].path)
              /\ wstate' = [wstate EXCEPT ![w] = "write"]
              /\ UNCHANGED << werr, cancelled, firstFailed, reports, wbytes >>
         ELSE /\ Fail(w, "Io")
              /\ UNCHANGED dirs
    /\ UNCHANGED << config, pc, body, ri_bin, files, total, total_len, loopVars,
                    awaiting, result, wstatus, fs, histVars, wseen, gets,
                    snapshot >>

\* tokio::fs::write completes (lib.rs:187-189).
Write(w) ==
    /\ wstate[w] = "write"
    /\ \E done \in BOOLEAN :
         IF done
         THEN /\ fs' = [fs EXCEPT ![files[w].path] = wbytes[w]]
              /\ Resolve(w, "Downloaded")
              /\ UNCHANGED << werr, cancelled, firstFailed, reports >>
         ELSE /\ Fail(w, "Io")
              /\ UNCHANGED << fs, wstatus >>
    /\ UNCHANGED << config, pc, body, ri_bin, files, total, total_len, loopVars,
                    awaiting, result, dirs, histVars, wseen, gets, snapshot >>

\* The cancellation branch of the task's select! wins (lib.rs:129-131) and
\* the fetch future is dropped.  A filesystem call that fetch had started
\* runs on the blocking pool and is not undone by the drop: it takes effect
\* or fails.
Cancelled(w) ==
    /\ InFetch(w)
    /\ CancelReady
    /\ Resolve(w, "Cancelled")
    /\ wseen' = [wseen EXCEPT ![w] = "none"]
    /\ \E done \in BOOLEAN :
         /\ dirs' = IF done /\ wstate[w] = "mkdir"
                    THEN WithParent(files[w].path) ELSE dirs
         /\ fs' = IF done /\ wstate[w] = "write"
                  THEN [fs EXCEPT ![files[w].path] = wbytes[w]] ELSE fs
    /\ UNCHANGED << config, pc, body, ri_bin, files, total, total_len, cancelled,
                    loopVars, awaiting, result, werr, histVars, gets, reports,
                    firstFailed, snapshot >>

\* Mutant of ReportCall: the status reported is not the task's own.
ReportCallDownloaded(w) ==
    [file |-> files[w], status |-> "Downloaded",
     total_files |-> total, total_bytes |-> total_len]

\* Mutant of ReportCall: total_files is the number of workers started.
ReportCallStarted(w) ==
    [file |-> files[w], status |-> wstatus[w],
     total_files |-> handles, total_bytes |-> total_len]

\* The arguments of reporter.report (lib.rs:145).
ReportCall(w) ==
    [file |-> files[w], status |-> wstatus[w],
     total_files |-> total, total_bytes |-> total_len]

\* Mutant of Finish: the task calls the Reporter twice.
FinishTwice(w) ==
    /\ wstate[w] = "report"
    /\ reports' = IF reporter
                  THEN [reports EXCEPT ![w] = Append(Append(@, ReportCall(w)), ReportCall(w))]
                  ELSE reports
    /\ wstate' = [wstate EXCEPT ![w] = "ok"]
    /\ permits' = permits + 1
    /\ UNCHANGED << config, pc, body, ri_bin, files, total, total_len, cancelled,
                    next, handles, lateAttempt, lateAdmits, awaiting, result,
                    wstatus, wbytes, werr, diskVars, histVars, wseen, gets,
                    firstFailed, snapshot >>

\* Mutant of Finish: the task returns without dropping its permit.
FinishKeepsPermit(w) ==
    /\ wstate[w] = "report"
    /\ reports' = IF reporter
                  THEN [reports EXCEPT ![w] = Append(@, ReportCall(w))]
                  ELSE reports
    /\ wstate' = [wstate EXCEPT ![w] = "ok"]
    /\ UNCHANGED << config, pc, body, ri_bin, files, total, total_len, cancelled,
                    permits, next, handles, lateAttempt, lateAdmits, awaiting,
                    result, wstatus, wbytes, werr, diskVars, histVars, wseen,
                    gets, firstFailed, snapshot >>

\* The task reports, returns Ok(()) and drops its permit (lib.rs:144-149).
Finish(w) ==
    /\ wstate[w] = "report"
    /\ reports' = IF reporter
                  THEN [reports EXCEPT ![w] = Append(@, ReportCall(w))]
                  ELSE reports
    /\ wstate' = [wstate EXCEPT ![w] = "ok"]
    /\ permits' = permits + 1
    /\ UNCHANGED << config, pc, body, ri_bin, files, total, total_len, cancelled,
                    next, handles, lateAttempt, lateAdmits, awaiting, result,
                    wstatus, wbytes, werr, diskVars, histVars, wseen, gets,
                    firstFailed, snapshot >>

\* The task returns Err(err) and drops its permit (lib.rs:137).
ReturnErr(w) ==
    /\ wstate[w] = "return_err"
    /\ wstate' = [wstate EXCEPT ![w] = "err"]
    /\ permits' = permits + 1
    /\ UNCHANGED << config, pc, body, ri_bin, files, total, total_len, cancelled,
                    next, handles, lateAttempt, lateAdmits, awaiting, result,
                    wstatus, wbytes, werr, diskVars, histVars, wseen, gets,
                    reports, firstFailed, snapshot >>

\* ------------------------------------------------------------- second loop

\* Mutant of NextHandle: a handle that has already failed is taken first.
NextHandleFailedFirst ==
    IF \E h \in awaiting..handles : wstate[h] = "err"
    THEN CHOOSE h \in awaiting..handles :
            /\ wstate[h] = "err"
            /\ \A g \in awaiting..handles : wstate[g] = "err" => g <= h
    ELSE awaiting

\* The handle the second loop awaits next (lib.rs:154): handles are awaited
\* in the order they were pushed.
NextHandle == awaiting

\* Mutant of HandleOk: the task's own Result is dropped, only the join is
\* checked.
HandleOkIgnoringErr(h) == wstate[h] \in {"ok", "err"}

\* What `handle.await ... ??` makes of a finished task (lib.rs:155-157):
\* Ok(()) lets the loop go on, Err(err) returns err.
HandleOk(h) == wstate[h] = "ok"
HandleErr(h) == wstate[h] = "err"

\* handle.await yields the task's result (lib.rs:154-158): Ok goes on to the
\* next handle, Err returns from run_inner.
Join ==
    /\ pc = "await"
    /\ awaiting <= handles
    /\ LET h == NextHandle IN
       \/ /\ HandleOk(h)
          /\ awaiting' = awaiting + 1
          /\ UNCHANGED << pc, result >>
       \/ /\ HandleErr(h)
          /\ result' = Err(werr[h], h)
          /\ pc' = "done"
          /\ UNCHANGED awaiting
    /\ UNCHANGED << config, body, ri_bin, files, total, total_len, cancelled,
                    loopVars, taskVars, diskVars, histVars, wseen, gets, reports,
                    firstFailed, snapshot >>

\* Every handle yielded Ok (lib.rs:158-165): without ri_bin the run returns
\* Ok, with it the snapshot write is started.
Joined ==
    /\ pc = "await"
    /\ awaiting > handles
    /\ IF ri_bin = "None"
       THEN /\ pc' = "done"
            /\ result' = Ok
       ELSE /\ pc' = "snapshot"
            /\ UNCHANGED result
    /\ UNCHANGED << config, body, ri_bin, files, total, total_len, cancelled,
                    loopVars, awaiting, taskVars, diskVars, histVars, wseen, gets,
                    reports, firstFailed, snapshot >>

\* Mutant of SnapshotBytes: the converted text is written.
SnapshotText == "xml"

\* The bytes the snapshot write writes (lib.rs:162).
SnapshotBytes == ri_bin

\* tokio::fs::write of the snapshot completes (lib.rs:160-165).
WriteSnapshot ==
    /\ pc = "snapshot"
    /\ pc' = "done"
    /\ \E done \in BOOLEAN :
         IF done
         THEN /\ fs' = [fs EXCEPT ![SnapshotPath] = SnapshotBytes]
              /\ snapshot' = SnapshotBytes
              /\ result' = Ok
         ELSE /\ result' = Err("Io", -1)
              /\ UNCHANGED << fs, snapshot >>
    /\ UNCHANGED << config, body, ri_bin, files, total, total_len, cancelled,
                    loopVars, awaiting, taskVars, dirs, histVars, wseen, gets,
                    reports, firstFailed >>

\* ------------------------------------------------------------ specification

Next ==
    \/ FetchManifest
    \/ BeginAttempt
    \/ Admit
    \/ Break
    \/ Join
    \/ Joined
    \/ WriteSnapshot
    \/ \E w \in Workers : Read(w)
    \/ \E w \in Workers : GetDone(w)
    \/ \E w \in Workers : CreateDirAll(w)
    \/ \E w \in Workers : Write(w)
    \/ \E w \in Workers : Cancelled(w)
    \/ \E w \in Workers : Finish(w)
    \/ \E w \in Workers : ReturnErr(w)

Spec == Init /\ [][Next]_vars

\* What the runtime and the environment guarantee of a run whose requests
\* and filesystem calls all complete: run_inner is polled whenever the
\* future it awaits is ready (its select! then takes one of the ready
\* branches), and so is every spawned task, whose fetch completes each of
\* its awaits.
Fairness ==
    /\ WF_vars(FetchManifest)
    /\ WF_vars(BeginAttempt)
    /\ WF_vars(Admit \/ Break)
    /\ WF_vars(Join)
    /\ WF_vars(Joined)
    /\ WF_vars(WriteSnapshot)
    /\ \A w \in Workers :
          /\ WF_vars(Read(w) \/ GetDone(w) \/ CreateDirAll(w) \/ Write(w) \/ Cancelled(w))
          /\ WF_vars(Finish(w) \/ ReturnErr(w))

FairSpec == Spec /\ Fairness

\* ------------------------------------------------------------- properties

\* The tasks that hold a permit: spawned and not yet returned.
Holders == { w \in Workers : wstate[w] \notin {"idle", "ok", "err"} }

\* The tasks whose fetch returned Err.
Failed == { w \in Workers : werr[w] # "none" }

\* C1. At most `concurrency` tasks hold an admission permit at any time,
\* whatever their outcome, and the held and the free permits add up to
\* `concurrency`.
C1_ConcurrencyBound ==
    /\ Cardinality(Holders) <= concurrency
    /\ pc # "manifest" /\ ~(result.tag \in {"Err", "panic"} /\ result.from = 0)
         => Cardinality(Holders) + permits = concurrency

\* C1 witness: with one permit, a task holds it while the loop waits in its
\* select! for the second descriptor.
C1_Witness ==
    /\ concurrency = 1
    /\ Cardinality(Holders) = 1
    /\ permits = 0
    /\ pc = "select"
    /\ next = 2

\* C2 (as claimed). No worker is admitted by an admission attempt that began
\* after the cancellation signal was raised.
C2_NoAdmissionAfterSignal == lateAdmits = {}

\* C3. Once the fetch of a started worker has failed, the run never returns
\* Ok, and when it returns it returns an error.
C3_FailureNeverOk ==
    Failed # {} =>
        /\ result.tag # "Ok"
        /\ pc = "done" => result.tag = "Err"

\* C3 witness: the run has returned an error although another worker
\* downloaded its file and returned Ok.
C3_Witness ==
    /\ pc = "done"
    /\ result.tag = "Err"
    /\ Failed # {}
    /\ \E w \in Workers : wstate[w] = "ok" /\ wstatus[w] = "Downloaded"

\* C4. A worker whose fetch failed makes no Reporter call.
C4_NoReportForFailed ==
    \A w \in Workers : (w \in Failed \/ wstate[w] = "err") => reports[w] = << >>

\* C4 witness: with a Reporter installed, one task has returned its error
\* and another has reported.
C4_Witness ==
    /\ reporter
    /\ \E w, v \in Workers : wstate[w] = "err" /\ reports[v] # << >>

\* The manifest stage succeeded: run_inner got past lib.rs:109.
Decoded == pc # "manifest" /\ ~(result.tag \in {"Err", "panic"} /\ result.from = 0)

Started == 1..handles

\* C5 (as claimed). A worker whose race was won by cancellation makes no
\* Reporter call.
C5_NoReportWhenCancelled ==
    \A w \in Workers : wstatus[w] = "Cancelled" => reports[w] = << >>

\* C5 (amended). The Reporter is called for a worker only once its select!
\* has yielded a status, with that status, which is Downloaded, Skipped or
\* Cancelled; with a Reporter installed a worker that cancellation won
\* against makes one call, carrying Cancelled, before it returns.
C5_ReportOnlyOutcome ==
    \A w \in Workers :
        /\ \A i \in DOMAIN reports[w] :
              /\ reports[w][i].status = wstatus[w]
              /\ reports[w][i].status \in {"Downloaded", "Skipped", "Cancelled"}
              /\ wstate[w] = "ok"
              /\ w \notin Failed
        /\ (reporter /\ wstate[w] = "ok" /\ wstatus[w] = "Cancelled")
              => Len(reports[w]) = 1

\* C5 witness: a cancelled worker has reported Cancelled.
C5_Witness ==
    \E w \in Workers :
        /\ wstatus[w] = "Cancelled"
        /\ Len(reports[w]) = 1
        /\ reports[w][1].status = "Cancelled"

\* Every filtered descriptor had, when the run started, a readable local
\* file whose digest is its checksum.
AllCachedAtStart ==
    /\ Decoded
    /\ \A i \in 1..Len(files) :
          /\ fs0[files[i].path] \notin {"missing", "unreadable"}
          /\ Digest(fs0[files[i].path]) = files[i].sum

NoGets == \A w \in Workers : gets[w] = << >>

AllReportedSkipped ==
    \A i \in 1..Len(files) :
        /\ Len(reports[i]) = 1
        /\ reports[i][1].status = "Skipped"
        /\ reports[i][1].file = files[i]

\* C6 (as claimed). A run that starts with every filtered descriptor cached
\* issues no file GET and, once it has returned, has reported every filtered
\* descriptor as Skipped (with a Reporter installed), has returned Ok and
\* has left every destination file unchanged.
C6_CacheHitIdempotence ==
    AllCachedAtStart =>
        /\ NoGets
        /\ pc = "done" =>
              /\ reporter => AllReportedSkipped
              /\ result = Ok
              /\ \A i \in 1..Len(files) : fs[files[i].path] = fs0[files[i].path]

\* C6 (amended). Such a run issues no file GET, raises no cancellation and
\* no worker writes; once it has returned it has reported every filtered
\* descriptor as Skipped (with a Reporter installed).  It returns Ok, or the
\* I/O error of the snapshot write when the manifest was binary and that
\* write failed.  Every destination file is unchanged, except SnapshotPath
\* when the snapshot write of a binary manifest has overwritten it.
C6_CacheHitAmended ==
    AllCachedAtStart =>
        /\ NoGets
        /\ ~cancelled
        /\ \A w \in Workers : wstatus[w] \in {"none", "Skipped"}
        /\ dirs = dirs0
        /\ \A p \in Paths : p # SnapshotPath \/ snapshot = "none" => fs[p] = fs0[p]
        /\ pc = "done" =>
              /\ reporter => AllReportedSkipped
              /\ result = Ok \/ (ri_bin # "None" /\ result = Err("Io", -1))
              /\ result = Ok /\ ri_bin # "None" => snapshot = "body"

\* C6 witness: a run over two cached descriptors has returned Ok with both
\* reported.
C6_Witness ==
    /\ AllCachedAtStart
    /\ Len(files) = 2
    /\ pc = "done"
    /\ result = Ok
    /\ reporter
    /\ AllReportedSkipped

\* C7. A fetch that ran to completion returned Skipped exactly when the file
\* it read was readable with the descriptor's checksum as digest, and then
\* it issued no GET; in every other case it issued one GET, to the
\* descriptor's url.
C7_SkippedIffDigestMatches ==
    \A w \in Workers :
        (wstatus[w] \in {"Skipped", "Downloaded"} \/ w \in Failed) =>
            LET hit == /\ wseen[w] \notin {"none", "missing", "unreadable"}
                       /\ Digest(wseen[w]) = files[w].sum
            IN  /\ wstatus[w] = "Skipped" <=> hit
                /\ hit => gets[w] = << >>
                /\ ~hit => gets[w] = << files[w].url >>

\* C7 witness: a readable local file whose digest is not the checksum was
\* downloaded again from the url of its descriptor.
C7_Witness ==
    \E w \in Workers :
        /\ wstatus[w] = "Downloaded"
        /\ wseen[w] = "c2"
        /\ files[w].sum = "h1"
        /\ gets[w] = << "u1" >>

AllJoinedOk ==
    /\ awaiting > handles
    /\ \A w \in Started : wstate[w] = "ok"

\* C8 (as claimed). When the run has returned, the snapshot was written if
\* and only if the manifest decoded via the binary path and every started
\* worker was awaited and finished without error; when written its bytes are
\* the response body.
C8_SnapshotIff ==
    pc = "done" =>
        /\ snapshot # "none" <=> (body.fmt = "kbin" /\ Decoded /\ AllJoinedOk)
        /\ snapshot # "none" => snapshot = "body" /\ fs[SnapshotPath] = "body"

\* C8 (amended). When the run has returned, the snapshot was written if and
\* only if the manifest decoded via the binary path, every started worker
\* was awaited and finished without error, and the write itself succeeded:
\* a failing write makes the run return its I/O error.  When written its
\* bytes are the response body; it is never written on the text path, after
\* a worker's fetch failed, or before every handle was joined.
C8_SnapshotAmended ==
    /\ pc = "done" =>
          /\ snapshot # "none" <=>
                (body.fmt = "kbin" /\ Decoded /\ AllJoinedOk /\ result = Ok)
          /\ (body.fmt = "kbin" /\ Decoded /\ AllJoinedOk /\ result # Ok)
                => result = Err("Io", -1)
    /\ snapshot # "none" =>
          /\ snapshot = "body"
          /\ fs[SnapshotPath] = "body"
          /\ body.fmt = "kbin"
          /\ AllJoinedOk
          /\ Failed = {}
          /\ pc = "done"
    /\ fs[SnapshotPath] = "body" => snapshot = "body"

\* C8 witness: the snapshot of a binary manifest was written after two
\* workers were joined.
C8_Witness ==
    /\ pc = "done"
    /\ snapshot = "body"
    /\ handles = 2

\* C9. A worker error the run returns is the error of the earliest-started
\* worker that failed: every handle before it yielded Ok, it is the handle
\* the loop was awaiting, and the later handles were not awaited.
C9_FirstErrorInStartOrder ==
    (pc = "done" /\ result.tag = "Err" /\ result.from >= 1) =>
        LET k == result.from IN
        /\ k \in Started
        /\ k \in Failed
        /\ result.kind = werr[k]
        /\ \A j \in 1..(k - 1) : wstate[j] = "ok" /\ j \notin Failed
        /\ awaiting = k

\* C9 witness: the run returned the error of worker 1 although worker 2
\* failed first, and worker 2 has not returned yet.
C9_Witness ==
    /\ pc = "done"
    /\ result.from = 1
    /\ firstFailed = 2
    /\ wstate[2] = "return_err"

\* C10. A failure of the manifest stage returns its error at once: no worker
\* is started, no file GET is issued, the Reporter is not called, nothing is
\* written; and a body that does not convert or deserialize is such a
\* failure.
C10_ManifestFailureAborts ==
    /\ (result.tag = "Err" /\ result.from = 0) =>
          /\ pc = "done"
          /\ handles = 0
          /\ permits = 0
          /\ \A w \in Workers :
                wstate[w] = "idle" /\ gets[w] = << >> /\ reports[w] = << >>
          /\ snapshot = "none"
          /\ fs = fs0 /\ dirs = dirs0
    /\ body.fmt = "kbin_noconv" => result = Err("ConvertResourceInfo", 0)
    /\ body.fmt \in {"kbin_noxml", "junk"} => result = Err("ParseResourceInfo", 0)
    /\ (pc = "done" /\ body = NoBody) => result = Err("Reqwest", 0)

\* C10 witness: the conversion of a binary manifest failed and the run has
\* returned that error.
C10_Witness ==
    /\ body.fmt = "kbin_noconv"
    /\ result = Err("ConvertResourceInfo", 0)
    /\ pc = "done"

\* The positions of the manifest response whose descriptor has a url.
Kept == { i \in DOMAIN body.entries : body.entries[i].url # "" }

\* The position in the response of the k-th such descriptor.
KeptAt(k) == CHOOSE i \in Kept : Cardinality({ j \in Kept : j <= i }) = k

\* C11. The working set is exactly the descriptors of the response that have
\* a non-empty url, in their order in the response; no descriptor with an
\* empty url is admitted, fetched or reported: a worker is only ever started
\* for a position of the working set, GETs its url and reports its
\* descriptor.
C11_Filtering ==
    /\ Decoded =>
          /\ Len(files) = Cardinality(Kept)
          /\ \A k \in 1..Len(files) : files[k] = body.entries[KeptAt(k)]
          /\ \A k \in 1..Len(files) : files[k].url # ""
    /\ \A w \in Workers :
          (wstate[w] # "idle" \/ gets[w] # << >> \/ reports[w] # << >>) =>
              /\ w \in 1..Len(files)
              /\ \A i \in DOMAIN gets[w] : gets[w][i] # "" /\ gets[w][i] = files[w].url
              /\ \A i \in DOMAIN reports[w] :
                    reports[w][i].file = files[w] /\ reports[w][i].file.url # ""

\* C11 witness: a response whose first descriptor has no url; the worker of
\* the descriptor after it has downloaded and reported.
C11_Witness ==
    /\ Len(body.entries) = 2
    /\ body.entries[1].url = ""
    /\ Len(files) = 1
    /\ wstate[1] = "ok"
    /\ gets[1] = << files[1].url >>
    /\ Len(reports[1]) = 1

\* C12. With a Reporter installed, a started worker that has finished without
\* error has made exactly one Reporter call, for its own descriptor; no
\* worker calls the Reporter more than once, before it finishes, or without
\* having been started; without a Reporter no call is made.
C12_OneReportPerFinished ==
    \A w \in Workers :
        /\ Len(reports[w]) <= 1
        /\ reports[w] # << >> =>
              /\ reporter
              /\ w \in Started
              /\ wstate[w] = "ok"
              /\ reports[w][1].file = files[w]
        /\ (reporter /\ wstate[w] = "ok") => Len(reports[w]) = 1

\* C12 witness: with no local file, the one worker of a run issued one GET,
\* wrote the file and reported Downloaded once with total_files = 1.
C12_Witness ==
    /\ reporter
    /\ Len(files) = 1
    /\ fs0[files[1].path] = "missing"
    /\ gets[1] = << files[1].url >>
    /\ fs[files[1].path] = Remote(files[1].url)
    /\ Len(reports[1]) = 1
    /\ reports[1][1].status = "Downloaded"
    /\ reports[1][1].total_files = 1
    /\ pc = "done"
    /\ result = Ok

\* The Reporter calls made so far, by any worker.
Reports == UNION { { reports[w][i] : i \in DOMAIN reports[w] } : w \in Workers }

RECURSIVE SumSizes(_)
SumSizes(fl) == IF fl = << >> THEN 0 ELSE Head(fl).size + SumSizes(Tail(fl))

\* The 64-bit two's complement word of an integer n, -2^31 <= n < 2^31: the
\* word whose value is n modulo 2^64.
Word(n) ==
    << n % Limb, (n \div Limb) % Limb,
       IF n < 0 THEN Limb - 1 ELSE 0, IF n < 0 THEN Limb - 1 ELSE 0 >>

\* C14. The total_bytes of every Reporter call is the sum of the size fields
\* of the working set, each an i32 converted to usize (a negative size
\* sign-extended) and the sum accumulated in a usize: the integer sum of the
\* sizes modulo 2^64.  (A build with overflow checks unwinds from a sum that
\* wraps before any worker is started, and then makes no Reporter call.)
C14_TotalBytes ==
    /\ Decoded => total_len = Word(SumSizes(files))
    /\ \A r \in Reports : r.total_bytes = Word(SumSizes(files))
    /\ result = Panicked =>
          /\ SumOverflows(files)
          /\ handles = 0
          /\ Reports = {}

\* C14 witness: a working set with sizes 65535 and -1, whose sum wraps
\* around the word to 65534, was reported with total_bytes = 65534.
C14_Witness ==
    /\ Len(files) = 2
    /\ files[1].size = 65535
    /\ files[2].size = -1
    /\ \E r \in Reports : r.total_bytes = << 65534, 0, 0, 0 >>

\* C15. Whenever a task has finished with the error of its fetch, and so
\* whenever the run has returned the fetch error of a worker, the
\* cancellation signal is raised.
C15_CancelBeforeError ==
    /\ \A w \in Workers : wstate[w] \in {"return_err", "err"} => cancelled
    /\ (result.tag = "Err" /\ result.from >= 1) => cancelled
    /\ cancelled => Failed # {}

\* C15 witness: a task has finished with its error while the other is still
\* in its fetch and the run has not returned: the signal is raised.
C15_Witness ==
    /\ wstate[2] = "err"
    /\ InFetch(1)
    /\ cancelled
    /\ result = Running

\* The first loop was left by its break: cancellation won the admission
\* race for files[next].
Broke == Decoded /\ pc \notin {"loop", "select"} /\ next <= Len(files)

\* The descriptors a task was spawned for.
Spawned == { w \in Workers : wstate[w] # "idle" }

\* C16. The descriptors started are at all times the prefix of the working
\* set before the loop's current descriptor; once cancellation has won the
\* admission race for a descriptor, the loop is over, and that descriptor
\* and every later one is never started, fetched or reported.
C16_EnqueuingStops ==
    /\ Spawned = 1..handles
    /\ handles = next - 1
    /\ handles <= Len(files)
    /\ Broke =>
          /\ cancelled
          /\ \A j \in next..Len(files) :
                wstate[j] = "idle" /\ gets[j] = << >> /\ reports[j] = << >>
    /\ \A w \in Workers : w \notin Spawned => gets[w] = << >> /\ reports[w] = << >>

\* C16 witness: cancellation won the race for the second of two descriptors;
\* the run has returned and the second was never started.
C16_Witness ==
    /\ Broke
    /\ next = 2
    /\ Len(files) = 2
    /\ pc = "done"
    /\ wstate[2] = "idle"

\* A step changes the filesystem under the output root.
DiskChanges == fs' # fs \/ dirs' # dirs

\* A step of worker w out of its create_dir_all or its write.
AfterGetStep(w) == wstate[w] \in {"mkdir", "write"} /\ wstate'[w] # wstate[w]

\* C17. A fetch creates directories and writes its destination only after
\* its GET succeeded: a fetch is at create_dir_all or at its write only with
\* the response of the one GET of its url in hand; a fetch that returned
\* Skipped issued no GET; no step of a fetch at its read or at its GET,
\* whether it goes on, returns Skipped, fails or is cancelled, changes a file
\* or a directory; and a step that does is the snapshot write or the step of
\* one fetch past its GET, which changes its own destination or creates the
\* parent of it and nothing else.
C17_WritesOnlyAfterGet ==
    /\ [](\A w \in Workers :
            /\ wstate[w] \in {"mkdir", "write"} =>
                  /\ gets[w] = << files[w].url >>
                  /\ wbytes[w] = Remote(files[w].url)
            /\ wstatus[w] = "Skipped" => gets[w] = << >>
            /\ (werr[w] = "Reqwest" /\ handles = 1) => fs = fs0 /\ dirs = dirs0)
    /\ [][ /\ \A w \in Workers :
                (wstate[w] \in {"read", "get"} /\ wstate'[w] # wstate[w])
                    => ~DiskChanges
           /\ DiskChanges =>
                \/ pc = "snapshot" /\ pc' = "done" /\ dirs' = dirs
                     /\ \A p \in Paths : p # SnapshotPath => fs'[p] = fs[p]
                \/ \E w \in Workers :
                     /\ AfterGetStep(w)
                     /\ \A p \in Paths : p # files[w].path => fs'[p] = fs[p]
                     /\ fs'[files[w].path] \in {fs[files[w].path], Remote(files[w].url)}
                     /\ dirs \subseteq dirs'
                     /\ dirs' \subseteq dirs \cup {Parent(files[w].path)}
         ]_vars

\* C17 witness: the GET of the only worker failed; the destination is still
\* missing and its parent directory was not created.
C17_Witness ==
    /\ handles = 1
    /\ wstate[1] = "err"
    /\ werr[1] = "Reqwest"
    /\ gets[1] = << files[1].url >>
    /\ files[1].path = "d/b"
    /\ fs["d/b"] = "missing"
    /\ "d" \notin dirs

\* C18. When the run has returned Ok, the cancellation signal was never
\* raised, every descriptor of the working set was started and has finished,
\* and each outcome is Downloaded or Skipped; a run in which a worker ended
\* Cancelled or a descriptor was dropped by the break returns an error.
C18_OkMeansComplete ==
    /\ result = Ok =>
          /\ ~cancelled
          /\ Failed = {}
          /\ ~Broke
          /\ handles = Len(files)
          /\ \A w \in 1..Len(files) :
                wstate[w] = "ok" /\ wstatus[w] \in {"Downloaded", "Skipped"}
    /\ (pc = "done" /\ (Broke \/ \E w \in Workers : wstatus[w] = "Cancelled"))
          => result.tag = "Err"

\* C18 witness: a run of two descriptors has returned Ok, one downloaded and
\* one skipped.
C18_Witness ==
    /\ result = Ok
    /\ Len(files) = 2
    /\ wstatus[1] = "Downloaded"
    /\ wstatus[2] = "Skipped"

\* C19. With a concurrency of at least 1, a run all of whose requests and
\* filesystem calls complete returns (Ok, an error, or the overflow panic of
\* the byte total): a task gives its permit back on every exit, so that all
\* permits are free once every spawned task has returned, and the first loop
\* does not wait for ever.
C19_Terminates ==
    /\ [](Decoded /\ Holders = {} => permits = concurrency)
    /\ (concurrency >= 1) ~> (pc = "done")

\* C19 witness: with one permit, the second of two workers was admitted
\* after the first gave the permit back, and the run has returned Ok.
C19_Witness ==
    /\ concurrency = 1
    /\ handles = 2
    /\ pc = "done"
    /\ result = Ok
    /\ permits = 1

\* C20. With a concurrency of 0 and a working set that is not empty, no
\* worker is ever admitted and the run never returns: the first loop stays
\* at the select! of the first descriptor, where no permit is ever free and
\* the cancellation signal is never raised; there nothing can happen any
\* more.
C20_ZeroConcurrencyHangs ==
    (concurrency = 0 /\ Decoded /\ files # << >>) =>
        /\ result = Running
        /\ pc \in {"loop", "select"}
        /\ next = 1
        /\ handles = 0
        /\ permits = 0
        /\ ~cancelled
        /\ \A w \in Workers : wstate[w] = "idle"
        /\ pc = "select" => ~ENABLED Next

\* C20 witness: with concurrency 0 the loop waits at the select! of the
\* first of two descriptors.
C20_Witness ==
    /\ concurrency = 0
    /\ Len(files) = 2
    /\ pc = "select"
    /\ result = Running

=============================================================================
